---- MODULE Spec2Model ----
(***************************************************************************)
(* Model of calculate_policy_outcomes (src/Policy_app.py, lines 40-150):   *)
(* the month-by-month simulation of the primary-only and the hybrid        *)
(* (SIP then SWP) scenarios.                                               *)
(*                                                                         *)
(* Arithmetic.  The program computes its money amounts and rates in        *)
(* Python floats, which are IEEE 754 binary64 doubles.  The model computes *)
(* in the same doubles: every +, -, * and / of the code is the correctly   *)
(* rounded operation (FlAdd, FlSub, FlMul, FlDivInt below), applied in the *)
(* order in which the code applies it.  Months, years and ages are         *)
(* integers, as in the code.  An int of the code that meets a float (the   *)
(* monthly benefit, the constant 1) is converted exactly (FlFromInt), and  *)
(* a record field holds the double of the same value.                      *)
(***************************************************************************)
EXTENDS Integers, Sequences, FiniteSets

VARIABLES
    \* parameters of the call (lines 40-44)
    current_age, monthly_survival_benefit, policy_end_age,
    sip_duration_years, sip_annual_return_rate,
    corpus_annual_growth_rate, swp_initial_annual_withdrawal_rate,
    swp_annual_payout_growth_rate,
    \* local state of the simulation (lines 58-67) and the loop variable
    results_list,
    primary_cumulative_income,
    hybrid_sip_corpus,
    hybrid_swp_corpus,
    hybrid_cumulative_total_income,
    scheduled_last_year_swp_monthly_payout,
    swp_year_counter,
    current_target_swp_monthly_payout,
    month_index,
    \* control: "loop" while the for statement runs, "done" after the return
    pc,
    \* history: one entry [month, corpus] per execution of line 100, the
    \* value being hybrid_swp_corpus right after the assignment
    transfer_log,
    \* history: the scalar locals after each iteration of the current call
    state_log,
    \* the number of the current call of the function (1 or 2), and what the
    \* first call returned and went through, once a second call has started
    call_number,
    first_call

params == <<current_age, monthly_survival_benefit, policy_end_age,
            sip_duration_years, sip_annual_return_rate,
            corpus_annual_growth_rate, swp_initial_annual_withdrawal_rate,
            swp_annual_payout_growth_rate>>

locals == <<results_list, primary_cumulative_income, hybrid_sip_corpus,
            hybrid_swp_corpus, hybrid_cumulative_total_income,
            scheduled_last_year_swp_monthly_payout, swp_year_counter,
            current_target_swp_monthly_payout, month_index>>

calls == <<call_number, first_call>>

vars == <<params, locals, pc, transfer_log, state_log, calls>>

----------------------------------------------------------------------------
(* Bounds of the model and constants of the program *)

MonthsPerYear == 12
PercentScale == 100
BaseAge == 40
MaxPolicyYears == 4
MaxSipYears == 3

Min(a, b) == IF a < b THEN a ELSE b
Max(a, b) == IF a > b THEN a ELSE b

----------------------------------------------------------------------------
(* IEEE 754 binary64 arithmetic, as Python's float does it.                *)
(*                                                                         *)
(* A natural number is a sequence of limbs, least significant first, each  *)
(* limb in 0..LimbBase-1.  A double is [s, m, e] with value s * m * 2^e:   *)
(* s is 1 or -1, m a natural of MantissaLimbs limbs with exactly Precision *)
(* bits (or 0, with s = 1 and e = 0, for zero).  Every operation computes  *)
(* the exact result as a natural and rounds it once, to nearest, ties to   *)
(* even.  Infinities, NaN, subnormals and -0.0 are outside the values the  *)
(* modelled runs reach and are not represented.                            *)

LimbBits == 14
LimbBase == 2^LimbBits
Precision == 53
MantissaLimbs == 4

Limb(a, i) == IF i \in 1..Len(a) THEN a[i] ELSE 0

NatIsZero(a) == \A i \in 1..Len(a) : a[i] = 0

\* the number of limbs up to the highest non-zero one
NatLimbs(a) ==
    IF NatIsZero(a) THEN 0
    ELSE CHOOSE n \in 1..Len(a) : a[n] # 0 /\ \A i \in (n + 1)..Len(a) : a[i] = 0

\* the number of bits of a limb
LimbBitLen(x) == CHOOSE n \in 0..LimbBits : x < 2^n /\ (n = 0 \/ x >= 2^(n - 1))

NatBitLen(a) ==
    LET n == NatLimbs(a)
    IN  IF n = 0 THEN 0 ELSE (n - 1) * LimbBits + LimbBitLen(a[n])

\* a as a sequence of exactly n limbs (the higher limbs must be 0)
NatResize(a, n) == [i \in 1..n |-> Limb(a, i)]

NatFromInt(k) == <<k % LimbBase, (k \div LimbBase) % LimbBase, k \div (LimbBase * LimbBase)>>

\* a * 2^k
NatShiftLeft(a, k) ==
    LET q == k \div LimbBits
        r == k % LimbBits
    IN  [i \in 1..(Len(a) + q + 1) |->
            ((Limb(a, i - q) * 2^r) % LimbBase) + (Limb(a, i - q - 1) \div 2^(LimbBits - r))]

\* a \div 2^k
NatShiftRight(a, k) ==
    LET q == k \div LimbBits
        r == k % LimbBits
    IN  [i \in 1..Max(Len(a) - q, 1) |->
            (Limb(a, i + q) \div 2^r) + ((Limb(a, i + q + 1) % 2^r) * 2^(LimbBits - r))]

\* bit k of a (bit 0 is the lowest)
NatBit(a, k) == (Limb(a, (k \div LimbBits) + 1) \div 2^(k % LimbBits)) % 2

\* some bit of a below bit k is set
NatAnyBitBelow(a, k) ==
    \/ \E i \in 1..(k \div LimbBits) : Limb(a, i) # 0
    \/ Limb(a, (k \div LimbBits) + 1) % 2^(k % LimbBits) # 0

\* -1, 0, 1 as a < b, a = b, a > b
NatCompare(a, b) ==
    LET n == Max(Len(a), Len(b))
        D == {i \in 1..n : Limb(a, i) # Limb(b, i)}
    IN  IF D = {} THEN 0
        ELSE LET top == CHOOSE i \in D : \A j \in D : j <= i
             IN  IF Limb(a, top) < Limb(b, top) THEN -1 ELSE 1

RECURSIVE NatAddFrom(_, _, _, _, _)
NatAddFrom(a, b, i, n, carry) ==
    IF i > n THEN <<carry>>
    ELSE LET t == Limb(a, i) + Limb(b, i) + carry
         IN  <<t % LimbBase>> \o NatAddFrom(a, b, i + 1, n, t \div LimbBase)

NatAdd(a, b) == NatAddFrom(a, b, 1, Max(Len(a), Len(b)), 0)

\* a - b, for a >= b
RECURSIVE NatSubFrom(_, _, _, _, _)
NatSubFrom(a, b, i, n, borrow) ==
    IF i > n THEN <<>>
    ELSE LET t == Limb(a, i) - Limb(b, i) - borrow
         IN  IF t < 0
             THEN <<t + LimbBase>> \o NatSubFrom(a, b, i + 1, n, 1)
             ELSE <<t>> \o NatSubFrom(a, b, i + 1, n, 0)

NatSub(a, b) == NatSubFrom(a, b, 1, Max(Len(a), Len(b)), 0)

\* the sum of the limb products a[i] * b[j] with i + j = k + 1
RECURSIVE NatMulColumn(_, _, _, _)
NatMulColumn(a, b, k, i) ==
    IF i > Len(a) THEN 0
    ELSE Limb(a, i) * Limb(b, k + 1 - i) + NatMulColumn(a, b, k, i + 1)

RECURSIVE NatCarryFrom(_, _, _)
NatCarryFrom(columns, i, carry) ==
    IF i > Len(columns) THEN <<carry>>
    ELSE LET t == columns[i] + carry
         IN  <<t % LimbBase>> \o NatCarryFrom(columns, i + 1, t \div LimbBase)

\* a * b, for a and b of at most MantissaLimbs limbs
NatMul(a, b) ==
    LET columns == [k \in 1..(Len(a) + Len(b) - 1) |-> NatMulColumn(a, b, k, 1)]
    IN  NatCarryFrom(columns, 1, 0)

\* quotient and remainder of a by the positive integer n < 2 * LimbBase,
\* from the highest limb down
RECURSIVE NatDivFrom(_, _, _, _)
NatDivFrom(a, n, i, rem) ==
    IF i < 1 THEN [quotient |-> <<>>, remainder |-> rem]
    ELSE LET t == rem * LimbBase + a[i]
             rest == NatDivFrom(a, n, i - 1, t % n)
         IN  [quotient |-> rest.quotient \o <<t \div n>>, remainder |-> rest.remainder]

NatDivSmall(a, n) == NatDivFrom(a, n, Len(a), 0)

FlZero == [s |-> 1, m |-> [i \in 1..MantissaLimbs |-> 0], e |-> 0]

FlIsZero(x) == NatIsZero(x.m)

\* the double nearest to s * N * 2^e, ties to even
FlRound(s, N, e) ==
    LET L == NatBitLen(N)
    IN  IF L = 0 THEN FlZero
        ELSE IF L <= Precision
        THEN [s |-> s,
              m |-> NatResize(NatShiftLeft(N, Precision - L), MantissaLimbs),
              e |-> e - (Precision - L)]
        ELSE LET sh == L - Precision
                 q == NatResize(NatShiftRight(N, sh), MantissaLimbs)
                 up == /\ NatBit(N, sh - 1) = 1
                       /\ (NatAnyBitBelow(N, sh - 1) \/ NatBit(q, 0) = 1)
                 q1 == IF up THEN NatAdd(q, <<1>>) ELSE q
             IN  IF NatBitLen(q1) > Precision
                 THEN [s |-> s,
                       m |-> NatResize(NatShiftRight(q1, 1), MantissaLimbs),
                       e |-> e + sh + 1]
                 ELSE [s |-> s, m |-> NatResize(q1, MantissaLimbs), e |-> e + sh]

\* float(k) for an integer k
FlFromInt(k) ==
    IF k < 0 THEN FlRound(-1, NatFromInt(-k), 0) ELSE FlRound(1, NatFromInt(k), 0)

FlNeg(x) == IF FlIsZero(x) THEN x ELSE [x EXCEPT !.s = -x.s]

\* -1, 0, 1 as x < y, x = y, x > y
FlCompare(x, y) ==
    IF FlIsZero(x) THEN (IF FlIsZero(y) THEN 0 ELSE -y.s)
    ELSE IF FlIsZero(y) THEN x.s
    ELSE IF x.s # y.s THEN x.s
    ELSE IF x.e # y.e THEN (IF x.e > y.e THEN x.s ELSE -x.s)
    ELSE x.s * NatCompare(x.m, y.m)

FlLess(x, y) == FlCompare(x, y) < 0
FlLessEq(x, y) == FlCompare(x, y) <= 0
FlGreater(x, y) == FlCompare(x, y) > 0
FlGreaterEq(x, y) == FlCompare(x, y) >= 0

\* x + y
FlAdd(x, y) ==
    IF FlIsZero(x) THEN y
    ELSE IF FlIsZero(y) THEN x
    ELSE LET hi == IF x.e >= y.e THEN x ELSE y
             lo == IF x.e >= y.e THEN y ELSE x
             d == hi.e - lo.e
         IN  IF d > Precision + 3 THEN hi
             ELSE LET H == NatShiftLeft(hi.m, d)
                      c == NatCompare(H, lo.m)
                  IN  IF hi.s = lo.s THEN FlRound(hi.s, NatAdd(H, lo.m), lo.e)
                      ELSE IF c = 0 THEN FlZero
                      ELSE IF c > 0 THEN FlRound(hi.s, NatSub(H, lo.m), lo.e)
                      ELSE FlRound(lo.s, NatSub(lo.m, H), lo.e)

\* x - y
FlSub(x, y) == FlAdd(x, FlNeg(y))

\* x * y
FlMul(x, y) ==
    IF FlIsZero(x) \/ FlIsZero(y) THEN FlZero
    ELSE FlRound(x.s * y.s, NatMul(x.m, y.m), x.e + y.e)

\* x / n for a positive integer n < 2 * LimbBase: the quotient is computed
\* with LimbBits + 2 bits more than the mantissa and one more bit that is
\* set when the division leaves a remainder, then rounded
FlDivInt(x, n) ==
    IF FlIsZero(x) THEN FlZero
    ELSE LET d == NatDivSmall(NatShiftLeft(x.m, LimbBits + 2), n)
             doubled == NatShiftLeft(d.quotient, 1)
             N == IF d.remainder = 0 THEN doubled ELSE NatAdd(doubled, <<1>>)
         IN  FlRound(x.s, N, x.e - (LimbBits + 3))

----------------------------------------------------------------------------
(* The values the parameters are drawn from *)

\* lines 30-36: a slider value in percent, divided by 100
Rate(percent) == FlDivInt(FlFromInt(percent), PercentScale)

\* line 24: the least and the default value of the widget
Benefits == {1000, 10000}

\* lines 30 and 34: the default 15 % of the two sliders, and the rate 0 that
\* the function accepts as well
AnnualRates == {Rate(p) : p \in {0, 15}}

\* line 35: the default 12 % of the slider; 0, 90 % and 100 % are rates the
\* function accepts as well, the last two deplete the corpus within the
\* years of the model
WithdrawalRates == {Rate(p) : p \in {0, 12, 90, 100}}

\* line 36: the least and the default value of the slider
PayoutGrowthRates == {Rate(p) : p \in {0, 5}}

----------------------------------------------------------------------------
(* Derived parameters, lines 51-56 *)

policy_duration_years == policy_end_age - current_age

total_months == policy_duration_years * MonthsPerYear

sip_duration_months_unscaled == sip_duration_years
sip_duration_months == sip_duration_years * MonthsPerYear

monthly_sip_return_rate == FlDivInt(sip_annual_return_rate, MonthsPerYear)

monthly_corpus_growth_rate == FlDivInt(corpus_annual_growth_rate, MonthsPerYear)

----------------------------------------------------------------------------
(* The steps of the loop body *)

\* line 58: results_list = [], whatever an earlier call left behind
InitialResultsKept(previous) == previous
InitialResults(previous) == <<>>

\* lines 61-65 and 67: the float locals start at 0.0, whatever an earlier
\* call left
InitialValue(previous) == FlZero

\* line 66: swp_year_counter = 0
InitialYear(previous) == 0

\* line 69: for month_index in range(total_months)
InRangeInclusive(m) == m <= total_months
InRange(m) == m < total_months

\* line 70: age_at_month_start = current_age + (month_index / 12.0)
AgeAtMonthStart(m) == FlAdd(FlFromInt(current_age), FlDivInt(FlFromInt(m), MonthsPerYear))

\* lines 75 and 79: the int parameter, as the float it becomes in the sums
MonthlyBenefit == FlFromInt(monthly_survival_benefit)

\* lines 76 and 130: cumulative += income
AddIncomeAssign(cumulative, income) == income
AddIncome(cumulative, income) == FlAdd(cumulative, income)

\* line 84: if month_index < sip_duration_months
SIPPhaseInclusive(m) == m <= sip_duration_months
SIPPhaseYears(m) == m < sip_duration_years
SIPPhase(m) == m < sip_duration_months

\* lines 87-89: interest on the corpus first, then this month's investment
SIPAccrueDropPrincipal(corpus, investment) ==
    FlAdd(FlMul(corpus, monthly_sip_return_rate), investment)
SIPAccrueContributionFirst(corpus, investment) ==
    FlAdd(FlAdd(corpus, investment), FlMul(FlAdd(corpus, investment), monthly_sip_return_rate))
SIPAccrue(corpus, investment) ==
    FlAdd(FlAdd(corpus, FlMul(corpus, monthly_sip_return_rate)), investment)

\* line 97: no SIP investment in the SWP phase
SWPPhaseInvestmentContinues(benefit) == benefit
SWPPhaseInvestment(benefit) == FlZero

\* line 99: if month_index == sip_duration_months
FirstSWPMonth(m) == m = sip_duration_months

\* line 100: hybrid_swp_corpus = hybrid_sip_corpus
TransferredCorpusPlusBenefit(sip_corpus) == FlAdd(sip_corpus, MonthlyBenefit)
TransferredCorpus(sip_corpus) == sip_corpus

\* lines 102-103: the year-1 monthly target
YearOneTarget(swp_corpus) ==
    FlDivInt(FlMul(swp_corpus, swp_initial_annual_withdrawal_rate), MonthsPerYear)

\* line 106: the anniversaries of the first SWP month, never that month itself
EscalationMonthIncludingFirst(m) ==
    /\ (m - sip_duration_months) >= 0
    /\ (m - sip_duration_months) % MonthsPerYear = 0
EscalationMonth(m) ==
    /\ (m - sip_duration_months) > 0
    /\ (m - sip_duration_months) % MonthsPerYear = 0

\* line 108
Escalate(last_year_payout) ==
    FlMul(last_year_payout, FlAdd(FlFromInt(1), swp_annual_payout_growth_rate))

\* lines 114-116: the corpus after one month of growth
CorpusAfterGrowth(swp_corpus) ==
    FlAdd(swp_corpus, FlMul(swp_corpus, monthly_corpus_growth_rate))

\* lines 118-123: the whole grown corpus when the target is not below it,
\* the target otherwise
PayTargetAlways(corpus_after_growth, target) ==
    [payout |-> target, corpus |-> FlSub(corpus_after_growth, target)]
PayReversedComparison(corpus_after_growth, target) ==
    IF FlLessEq(target, corpus_after_growth)
    THEN [payout |-> corpus_after_growth, corpus |-> FlZero]
    ELSE [payout |-> target, corpus |-> FlSub(corpus_after_growth, target)]
Pay(corpus_after_growth, target) ==
    IF FlGreaterEq(target, corpus_after_growth)
    THEN [payout |-> corpus_after_growth, corpus |-> FlZero]
    ELSE [payout |-> target, corpus |-> FlSub(corpus_after_growth, target)]

\* line 125: if hybrid_swp_corpus < 0: hybrid_swp_corpus = 0.0
FloorAtZero(r) == IF FlLess(r.corpus, FlZero) THEN [r EXCEPT !.corpus = FlZero] ELSE r

\* lines 111-125: growth, payout, depletion and the floor at zero;
\* the result is the payout of the month and the corpus after it
SWPWithdrawNoFloor(swp_corpus, target) ==
    PayTargetAlways(CorpusAfterGrowth(swp_corpus), target)
SWPWithdrawTargetAfterDepletion(swp_corpus, target) ==
    IF FlLessEq(swp_corpus, FlZero)
    THEN [payout |-> target, corpus |-> FlZero]
    ELSE FloorAtZero(Pay(CorpusAfterGrowth(swp_corpus), target))
SWPWithdrawNoGrowth(swp_corpus, target) ==
    IF FlLessEq(swp_corpus, FlZero)
    THEN [payout |-> FlZero, corpus |-> FlZero]
    ELSE FloorAtZero(Pay(swp_corpus, target))
SWPWithdrawReversedComparison(swp_corpus, target) ==
    IF FlLessEq(swp_corpus, FlZero)
    THEN [payout |-> FlZero, corpus |-> FlZero]
    ELSE FloorAtZero(PayReversedComparison(CorpusAfterGrowth(swp_corpus), target))
SWPWithdrawClampOnly(swp_corpus, target) ==
    FloorAtZero(PayTargetAlways(CorpusAfterGrowth(swp_corpus), target))
SWPWithdraw(swp_corpus, target) ==
    IF FlLessEq(swp_corpus, FlZero)
    THEN [payout |-> FlZero, corpus |-> FlZero]
    ELSE FloorAtZero(Pay(CorpusAfterGrowth(swp_corpus), target))

\* line 127: benefit + payout
HybridTotalIncomeMinus(benefit, payout) == FlSub(benefit, payout)
HybridTotalIncomePayoutOnly(benefit, payout) == payout
HybridTotalIncome(benefit, payout) == FlAdd(benefit, payout)

\* lines 132-148: the record of one month
Record(m, primary_monthly, primary_cum, benefit, sip_investment, sip_corpus, payout, swp_corpus_eom, hybrid_monthly, hybrid_cum, year, target) ==
    [ MonthIndex |-> m,
      Age |-> AgeAtMonthStart(m),
      PolicyYear |-> (m \div MonthsPerYear) + 1,
      MonthInPolicyYear |-> (m % MonthsPerYear) + 1,
      Primary_MonthlyIncome |-> primary_monthly,
      Primary_CumulativeIncome |-> primary_cum,
      Hybrid_SurvivalBenefitReceived |-> benefit,
      Hybrid_SIPInvestment |-> sip_investment,
      Hybrid_SIPCorpus_EOM |-> sip_corpus,
      Hybrid_SWPPayout |-> payout,
      Hybrid_SWPCorpus_EOM |-> swp_corpus_eom,
      Hybrid_TotalMonthlyIncome |-> hybrid_monthly,
      Hybrid_CumulativeTotalIncome |-> hybrid_cum,
      SWP_Year |-> IF m >= sip_duration_months THEN year ELSE 0,
      Target_SWP_Payout |-> IF m >= sip_duration_months THEN target ELSE FlZero ]

----------------------------------------------------------------------------
(* The state machine *)

\* lines 51-67: the state on entry to the loop
Init ==
    /\ current_age = BaseAge
    /\ monthly_survival_benefit \in Benefits
    /\ policy_end_age \in (BaseAge - 1)..(BaseAge + MaxPolicyYears)
    /\ sip_duration_years \in 0..MaxSipYears
    /\ sip_annual_return_rate \in AnnualRates
    /\ corpus_annual_growth_rate \in AnnualRates
    /\ swp_initial_annual_withdrawal_rate \in WithdrawalRates
    /\ swp_annual_payout_growth_rate \in PayoutGrowthRates
    /\ results_list = InitialResults(<<>>)
    /\ primary_cumulative_income = InitialValue(FlZero)
    /\ hybrid_sip_corpus = InitialValue(FlZero)
    /\ hybrid_swp_corpus = InitialValue(FlZero)
    /\ hybrid_cumulative_total_income = InitialValue(FlZero)
    /\ scheduled_last_year_swp_monthly_payout = InitialValue(FlZero)
    /\ swp_year_counter = InitialYear(0)
    /\ current_target_swp_monthly_payout = InitialValue(FlZero)
    /\ month_index = 0
    /\ pc = "loop"
    /\ transfer_log = <<>>
    /\ state_log = <<>>
    /\ call_number = 1
    /\ first_call = [results |-> <<>>, states |-> <<>>]

\* the scalar locals at the end of an iteration
Snapshot(pcum, sip, swp, hcum, sched, year, target, m) == [primary_cumulative_income |-> pcum, hybrid_sip_corpus |-> sip, hybrid_swp_corpus |-> swp, hybrid_cumulative_total_income |-> hcum, scheduled_last_year_swp_monthly_payout |-> sched, swp_year_counter |-> year, current_target_swp_monthly_payout |-> target, month_index |-> m]

\* lines 69-93 and 130-148: one iteration of the loop in the SIP phase; each
\* \E binds a value the iteration computes once
SIPMonth ==
    /\ pc = "loop"
    /\ InRange(month_index)
    /\ SIPPhase(month_index)
    /\ \E benefit \in {MonthlyBenefit} :
       \E primary_cum \in {AddIncome(primary_cumulative_income, benefit)} :
       \E sip_corpus \in {SIPAccrue(hybrid_sip_corpus, benefit)} :
       \E hybrid_cum \in {AddIncome(hybrid_cumulative_total_income, benefit)} :
           /\ primary_cumulative_income' = primary_cum
           /\ hybrid_sip_corpus' = sip_corpus
           /\ hybrid_cumulative_total_income' = hybrid_cum
           /\ results_list' = Append(results_list,
                  Record(month_index, benefit, primary_cum,
                         benefit, benefit, sip_corpus,
                         FlZero, FlZero, benefit, hybrid_cum,
                         swp_year_counter, current_target_swp_monthly_payout))
           /\ state_log' = Append(state_log,
                  Snapshot(primary_cum, sip_corpus, hybrid_swp_corpus, hybrid_cum,
                           scheduled_last_year_swp_monthly_payout, swp_year_counter,
                           current_target_swp_monthly_payout, month_index))
    /\ month_index' = month_index + 1
    /\ UNCHANGED <<params, hybrid_swp_corpus, scheduled_last_year_swp_monthly_payout,
                   swp_year_counter, current_target_swp_monthly_payout,
                   pc, transfer_log, calls>>

\* lines 69-82 and 95-148: one iteration of the loop in the SWP phase; each
\* \E binds a value the iteration computes once
SWPMonth ==
    /\ pc = "loop"
    /\ InRange(month_index)
    /\ ~SIPPhase(month_index)
    /\ \E benefit \in {MonthlyBenefit} :
       \E primary_cum \in {AddIncome(primary_cumulative_income, benefit)} :
       \* lines 99-104
       \E first \in {FirstSWPMonth(month_index)} :
       \E corpus1 \in {IF first THEN TransferredCorpus(hybrid_sip_corpus)
                       ELSE hybrid_swp_corpus} :
       \E year1 \in {IF first THEN 1 ELSE swp_year_counter} :
       \E target1 \in {IF first THEN YearOneTarget(corpus1)
                       ELSE current_target_swp_monthly_payout} :
       \E sched1 \in {IF first THEN target1
                      ELSE scheduled_last_year_swp_monthly_payout} :
       \* lines 106-109
       \E esc \in {EscalationMonth(month_index)} :
       \E year2 \in {IF esc THEN year1 + 1 ELSE year1} :
       \E target2 \in {IF esc THEN Escalate(sched1) ELSE target1} :
       \E sched2 \in {IF esc THEN target2 ELSE sched1} :
       \* lines 111-125
       \E w \in {SWPWithdraw(corpus1, target2)} :
       \* lines 127-130
       \E hybrid_monthly \in {HybridTotalIncome(benefit, w.payout)} :
       \E hybrid_cum \in {AddIncome(hybrid_cumulative_total_income, hybrid_monthly)} :
           /\ primary_cumulative_income' = primary_cum
           /\ hybrid_swp_corpus' = w.corpus
           /\ swp_year_counter' = year2
           /\ current_target_swp_monthly_payout' = target2
           /\ scheduled_last_year_swp_monthly_payout' = sched2
           /\ hybrid_cumulative_total_income' = hybrid_cum
           /\ transfer_log' = IF first
                              THEN Append(transfer_log,
                                          [month |-> month_index, corpus |-> corpus1])
                              ELSE transfer_log
           /\ results_list' = Append(results_list,
                  Record(month_index, benefit, primary_cum,
                         benefit, SWPPhaseInvestment(benefit), hybrid_sip_corpus,
                         w.payout, w.corpus, hybrid_monthly, hybrid_cum,
                         year2, target2))
           /\ state_log' = Append(state_log,
                  Snapshot(primary_cum, hybrid_sip_corpus, w.corpus, hybrid_cum,
                           sched2, year2, target2, month_index))
    /\ month_index' = month_index + 1
    /\ UNCHANGED <<params, hybrid_sip_corpus, pc, calls>>

\* lines 69 and 150: the range is exhausted and the function returns
Return ==
    /\ pc = "loop"
    /\ ~InRange(month_index)
    /\ pc' = "done"
    /\ UNCHANGED <<params, locals, transfer_log, state_log, calls>>

Next == SIPMonth \/ SWPMonth \/ Return

Spec == Init /\ [][Next]_vars

\* lines 153-157 run again: a second call with the same arguments, after the
\* first has returned; lines 58-67 set up the locals of the new call
CallAgain ==
    /\ pc = "done"
    /\ call_number = 1
    /\ call_number' = 2
    /\ first_call' = [results |-> results_list, states |-> state_log]
    /\ results_list' = InitialResults(results_list)
    /\ primary_cumulative_income' = InitialValue(primary_cumulative_income)
    /\ hybrid_sip_corpus' = InitialValue(hybrid_sip_corpus)
    /\ hybrid_swp_corpus' = InitialValue(hybrid_swp_corpus)
    /\ hybrid_cumulative_total_income' = InitialValue(hybrid_cumulative_total_income)
    /\ scheduled_last_year_swp_monthly_payout' = InitialValue(scheduled_last_year_swp_monthly_payout)
    /\ swp_year_counter' = InitialYear(swp_year_counter)
    /\ current_target_swp_monthly_payout' = InitialValue(current_target_swp_monthly_payout)
    /\ month_index' = 0
    /\ pc' = "loop"
    /\ transfer_log' = <<>>
    /\ state_log' = <<>>
    /\ UNCHANGED params

NextTwoCalls == SIPMonth \/ SWPMonth \/ Return \/ CallAgain

SpecTwoCalls == Init /\ [][NextTwoCalls]_vars

----------------------------------------------------------------------------
(* Vocabulary of the properties *)

TotalMonths == (policy_end_age - current_age) * 12
AccumulationMonths == sip_duration_years * 12
NumRecords == Len(results_list)
\* the record with MonthIndex i
Rec(i) == results_list[i + 1]
RecordIndices == 0..(NumRecords - 1)
ValidParameters ==
    /\ policy_end_age > current_age
    /\ 0 <= AccumulationMonths
    /\ AccumulationMonths <= TotalMonths
\* an integer amount of money, as a double
Amount(k) == FlFromInt(k)
\* the function has returned: results_list is the returned sequence
Returned == pc = "done"

----------------------------------------------------------------------------
(* Properties *)

\* C1: for valid parameters the run emits exactly total_months records,
\* numbered 0..total_months-1 in order, and the baseline cumulative income of
\* record i is monthly_benefit * (i + 1).
C1_RecordCountAndBaseline ==
    ValidParameters =>
        /\ NumRecords <= TotalMonths
        /\ \A i \in RecordIndices : Rec(i).MonthIndex = i
        /\ Returned =>
              /\ NumRecords = TotalMonths
              /\ \A i \in RecordIndices :
                    Rec(i).Primary_CumulativeIncome = Amount(monthly_survival_benefit * (i + 1))

C1_Witness ==
    /\ ValidParameters
    /\ Returned
    /\ NumRecords = TotalMonths
    /\ NumRecords >= 24
    /\ Rec(NumRecords - 1).Primary_CumulativeIncome = Amount(monthly_survival_benefit * NumRecords)

\* C2: once a withdrawal-phase record shows a decumulation balance of 0,
\* every later record has balance 0 and payout 0, also after later
\* escalation anniversaries.
C2_DepletionIsTerminal ==
    \A i \in RecordIndices : \A j \in RecordIndices :
        (i >= AccumulationMonths /\ i < j /\ Rec(i).Hybrid_SWPCorpus_EOM = FlZero) =>
            /\ Rec(j).Hybrid_SWPCorpus_EOM = FlZero
            /\ Rec(j).Hybrid_SWPPayout = FlZero

\* a positive balance was paid out in full, and a later anniversary raised
\* the target while the balance stayed 0
C2_Witness ==
    \E i \in RecordIndices : \E j \in RecordIndices :
        /\ i >= AccumulationMonths /\ i < j
        /\ FlGreater(Rec(i).Hybrid_SWPPayout, FlZero)
        /\ Rec(i).Hybrid_SWPCorpus_EOM = FlZero
        /\ Rec(j).SWP_Year > Rec(i).SWP_Year
        /\ FlGreater(Rec(j).Target_SWP_Payout, Rec(i).Target_SWP_Payout)
        /\ Rec(j).Hybrid_SWPPayout = FlZero

\* C3: the decumulation balance is never negative, in the state and in
\* every record.
C3_BalanceNeverNegative ==
    /\ FlGreaterEq(hybrid_swp_corpus, FlZero)
    /\ \A i \in RecordIndices : FlGreaterEq(Rec(i).Hybrid_SWPCorpus_EOM, FlZero)

\* a month whose target exceeded the grown balance: the payout was cut to
\* the balance and the balance ended at 0 instead of below it
C3_Witness ==
    \E i \in RecordIndices :
        /\ i >= AccumulationMonths
        /\ FlGreater(Rec(i).Hybrid_SWPPayout, FlZero)
        /\ FlLess(Rec(i).Hybrid_SWPPayout, Rec(i).Target_SWP_Payout)
        /\ Rec(i).Hybrid_SWPCorpus_EOM = FlZero

\* C4 (as claimed): when accumulation_months > total_months the engine
\* rejects the parameters before simulating: no record is ever emitted.
C4_RejectsOverlongAccumulation ==
    AccumulationMonths > TotalMonths => NumRecords = 0

\* C4 (amended): when accumulation_months > total_months the engine does not
\* reject: it returns max(total_months, 0) records, every one of them an
\* accumulation-phase record, and never makes the transfer.
C4_OverlongAccumulationRunsAccumulationOnly ==
    AccumulationMonths > TotalMonths =>
        /\ NumRecords <= Max(TotalMonths, 0)
        /\ (Returned => NumRecords = Max(TotalMonths, 0))
        /\ transfer_log = <<>>
        /\ LET benefit == Amount(monthly_survival_benefit)
           IN  \A i \in RecordIndices :
                   /\ Rec(i).MonthIndex = i
                   /\ Rec(i).Hybrid_SIPInvestment = benefit
                   /\ Rec(i).Hybrid_SWPPayout = FlZero
                   /\ Rec(i).Hybrid_SWPCorpus_EOM = FlZero
                   /\ Rec(i).SWP_Year = 0

C4_Witness ==
    /\ AccumulationMonths > TotalMonths
    /\ Returned
    /\ NumRecords = TotalMonths
    /\ NumRecords >= 12
    /\ Rec(NumRecords - 1).Hybrid_SIPInvestment = Amount(monthly_survival_benefit)

\* C5: when total_months <= 0 no monthly step is executed and no record is
\* emitted: the result is the empty sequence.
C5_NoRecordsWhenNoMonths ==
    TotalMonths <= 0 =>
        /\ NumRecords = 0
        /\ month_index = 0
        /\ transfer_log = <<>>

C5_Witness ==
    /\ TotalMonths < 0
    /\ Returned
    /\ NumRecords = 0

\* C6: every record with MonthIndex < accumulation_months has payout 0 and
\* decumulation balance 0.
C6_NoWithdrawalBeforeTransition ==
    \A i \in RecordIndices :
        i < AccumulationMonths =>
            /\ Rec(i).Hybrid_SWPPayout = FlZero
            /\ Rec(i).Hybrid_SWPCorpus_EOM = FlZero

\* accumulation records followed by a withdrawal record with a payout
C6_Witness ==
    \E i \in RecordIndices : \E j \in RecordIndices :
        /\ i < AccumulationMonths
        /\ FlGreater(Rec(i).Hybrid_SIPCorpus_EOM, FlZero)
        /\ j >= AccumulationMonths
        /\ FlGreater(Rec(j).Hybrid_SWPPayout, FlZero)
        /\ FlGreater(Rec(j).Hybrid_SWPCorpus_EOM, FlZero)

\* C7: the transfer happens exactly once, in month accumulation_months; the
\* balance right after it is the accumulation balance at the end of month
\* accumulation_months - 1 (0 when there is no such month); no other month
\* assigns the decumulation balance from the accumulation balance.
C7_TransferExactlyOnce ==
    /\ Len(transfer_log) <= 1
    /\ (NumRecords > AccumulationMonths => Len(transfer_log) = 1)
    /\ (NumRecords <= AccumulationMonths => Len(transfer_log) = 0)
    /\ \A k \in 1..Len(transfer_log) :
          /\ transfer_log[k].month = AccumulationMonths
          /\ transfer_log[k].corpus =
                IF AccumulationMonths = 0 THEN FlZero
                ELSE Rec(AccumulationMonths - 1).Hybrid_SIPCorpus_EOM

\* a positive balance was transferred and the run went on for over a year
C7_Witness ==
    /\ Len(transfer_log) = 1
    /\ FlGreater(transfer_log[1].corpus, FlZero)
    /\ transfer_log[1].month = AccumulationMonths
    /\ NumRecords > AccumulationMonths + 12

\* C8: for valid parameters both cumulative income fields are
\* non-decreasing from each record to the next.
C8_CumulativeNonDecreasing ==
    ValidParameters =>
        \A i \in RecordIndices :
            (i + 1) \in RecordIndices =>
                /\ FlGreaterEq(Rec(i + 1).Primary_CumulativeIncome, Rec(i).Primary_CumulativeIncome)
                /\ FlGreaterEq(Rec(i + 1).Hybrid_CumulativeTotalIncome, Rec(i).Hybrid_CumulativeTotalIncome)

\* a month with a payout larger than the benefit, and a later month
\* without payout
C8_Witness ==
    /\ ValidParameters
    /\ \E i \in RecordIndices : \E j \in RecordIndices :
          /\ i < j
          /\ FlGreater(Rec(i).Hybrid_SWPPayout, Rec(i).Primary_MonthlyIncome)
          /\ Rec(j).Hybrid_SWPPayout = FlZero
          /\ FlGreater(Rec(j).Hybrid_CumulativeTotalIncome, Rec(i).Hybrid_CumulativeTotalIncome)

\* C9: in an accumulation-only run (accumulation_months >= total_months)
\* every record has payout 0 and, when monthly_benefit > 0, the accumulation
\* balance strictly increases from each record to the next.
C9_AccumulationOnlyRun ==
    AccumulationMonths >= TotalMonths =>
        \A i \in RecordIndices :
            /\ Rec(i).Hybrid_SWPPayout = FlZero
            /\ (monthly_survival_benefit > 0 /\ (i + 1) \in RecordIndices) =>
                  FlGreater(Rec(i + 1).Hybrid_SIPCorpus_EOM, Rec(i).Hybrid_SIPCorpus_EOM)

C9_Witness ==
    /\ AccumulationMonths >= TotalMonths
    /\ Returned
    /\ NumRecords >= 12
    /\ FlIsZero(sip_annual_return_rate)
    /\ Rec(NumRecords - 1).Hybrid_SIPCorpus_EOM = Amount(monthly_survival_benefit * NumRecords)

\* C10: with accumulation_duration_years = 0 the transition is in month 0
\* with a transferred balance of 0; the target and the payout are 0 in every
\* record and the hybrid monthly income equals monthly_benefit, whatever the
\* growth, withdrawal and escalation rates.
C10_ZeroAccumulationYears ==
    sip_duration_years = 0 =>
        /\ (NumRecords > 0 => Len(transfer_log) = 1)
        /\ \A k \in 1..Len(transfer_log) :
              transfer_log[k].month = 0 /\ transfer_log[k].corpus = FlZero
        /\ current_target_swp_monthly_payout = FlZero
        /\ LET benefit == Amount(monthly_survival_benefit)
           IN  \A i \in RecordIndices :
                   /\ Rec(i).Target_SWP_Payout = FlZero
                   /\ Rec(i).Hybrid_SWPPayout = FlZero
                   /\ Rec(i).Hybrid_TotalMonthlyIncome = benefit
                   /\ Rec(i).Hybrid_TotalMonthlyIncome = Rec(i).Primary_MonthlyIncome

C10_Witness ==
    /\ sip_duration_years = 0
    /\ Returned
    /\ NumRecords >= 24
    /\ FlGreater(corpus_annual_growth_rate, FlZero)
    /\ FlGreater(swp_initial_annual_withdrawal_rate, FlZero)
    /\ FlGreater(swp_annual_payout_growth_rate, FlZero)
    /\ Rec(NumRecords - 1).SWP_Year >= 2
    /\ Rec(NumRecords - 1).Hybrid_TotalMonthlyIncome = Amount(monthly_survival_benefit)

\* C11: two runs with identical parameters, compared month by month, have
\* the same state after every month and emit the same records: the second
\* call of the function repeats the first exactly.
C11_SecondRunRepeatsFirst ==
    call_number = 2 =>
        /\ Len(results_list) <= Len(first_call.results)
        /\ \A i \in 1..Len(results_list) : results_list[i] = first_call.results[i]
        /\ Len(state_log) = Len(results_list)
        /\ Len(state_log) <= Len(first_call.states)
        /\ \A i \in 1..Len(state_log) : state_log[i] = first_call.states[i]
        /\ (Returned => results_list = first_call.results)

\* a second run with an accumulation phase, a payout and a depletion
C11_Witness ==
    /\ call_number = 2
    /\ Returned
    /\ NumRecords >= 24
    /\ results_list = first_call.results
    /\ \E i \in RecordIndices : FlGreater(Rec(i).Hybrid_SIPInvestment, FlZero)
    /\ \E i \in RecordIndices :
          FlGreater(Rec(i).Hybrid_SWPPayout, FlZero) /\ Rec(i).Hybrid_SWPCorpus_EOM = FlZero

----------------------------------------------------------------------------
(* Vocabulary of the withdrawal-phase properties *)

\* base^k by k successive float multiplications
RECURSIVE FlPow(_, _)
FlPow(base, k) == IF k <= 0 THEN FlFromInt(1) ELSE FlMul(FlPow(base, k - 1), base)

\* |x| and x * 2^k
FlAbs(x) == IF FlIsZero(x) THEN x ELSE [x EXCEPT !.s = 1]
FlScale(x, k) == IF FlIsZero(x) THEN x ELSE [x EXCEPT !.e = @ + k]

WithdrawalIndices == {i \in RecordIndices : i >= AccumulationMonths}

\* the balance transferred at the transition (0 before it has happened)
Transferred == IF transfer_log = <<>> THEN FlZero ELSE transfer_log[1].corpus

\* the year-1 monthly target: transferred * rate / 12
T1 == FlDivInt(FlMul(Transferred, swp_initial_annual_withdrawal_rate), 12)

\* 1 + payout_growth_rate
PayoutGrowthFactor == FlAdd(FlFromInt(1), swp_annual_payout_growth_rate)

\* a target after k escalations, each one the product target * (1 + rate)
RECURSIVE Escalated(_, _)
Escalated(target, k) ==
    IF k <= 0 THEN target ELSE FlMul(Escalated(target, k - 1), PayoutGrowthFactor)

\* the decumulation balance at the start of withdrawal month m
StartBalance(m) ==
    IF m = AccumulationMonths THEN Transferred
    ELSE Rec(m - 1).Hybrid_SWPCorpus_EOM

\* a balance after one month of growth, as the product B * (1 + rate/12)
GrownByFactor(balance, annual_rate) ==
    FlMul(balance, FlAdd(FlFromInt(1), FlDivInt(annual_rate, 12)))

\* a balance after one month of growth, as the sum B + B * (rate/12)
GrownByInterest(balance, annual_rate) ==
    FlAdd(balance, FlMul(balance, FlDivInt(annual_rate, 12)))

\* the running sums of a field of the records from..to, added up in record
\* order from 0.0; a property binds the sequence with \E, once for all
\* its records
RECURSIVE RunningSums(_, _, _)
RunningSums(field, from, to) ==
    IF to < from THEN <<>>
    ELSE LET before == RunningSums(field, from, to - 1)
             last == IF before = <<>> THEN FlZero ELSE before[Len(before)]
         IN  Append(before, FlAdd(last, Rec(to)[field]))

\* the months with a payout that is positive but below the target
PartialPayoutMonths ==
    {i \in WithdrawalIndices :
        /\ FlGreater(Rec(i).Hybrid_SWPPayout, FlZero)
        /\ FlLess(Rec(i).Hybrid_SWPPayout, Rec(i).Target_SWP_Payout)}

----------------------------------------------------------------------------
(* Properties of the escalation, the payout and the balances *)

\* C12 (as claimed): escalation happens exactly on the anniversaries after
\* the transition month: every record with m >= accumulation_months has
\* SWP_Year = (m - accumulation_months) div 12 + 1 and Target_SWP_Payout =
\* T1 * (1 + payout_growth_rate)^(SWP_Year - 1), also after depletion; every
\* record with m < accumulation_months has SWP_Year 0 and target 0.
C12_TargetIsClosedForm ==
    Returned =>
        LET t1 == T1
            factor == PayoutGrowthFactor
        IN  \A i \in RecordIndices :
                IF i >= AccumulationMonths
                THEN /\ Rec(i).SWP_Year = ((i - AccumulationMonths) \div 12) + 1
                     /\ Rec(i).Target_SWP_Payout =
                           FlMul(t1, FlPow(factor, Rec(i).SWP_Year - 1))
                ELSE /\ Rec(i).SWP_Year = 0
                     /\ Rec(i).Target_SWP_Payout = FlZero

\* C12 (amended): the years are as claimed, and the target of a record of
\* withdrawal year y is T1 escalated y - 1 times, each escalation being the
\* float product target * (1 + payout_growth_rate), also after depletion;
\* every record with m < accumulation_months has SWP_Year 0 and target 0.
C12_EscalationSchedule ==
    Returned =>
        LET t1 == T1
        IN  \A i \in RecordIndices :
                IF i >= AccumulationMonths
                THEN /\ Rec(i).SWP_Year = ((i - AccumulationMonths) \div 12) + 1
                     /\ Rec(i).Target_SWP_Payout = Escalated(t1, Rec(i).SWP_Year - 1)
                ELSE /\ Rec(i).SWP_Year = 0
                     /\ Rec(i).Target_SWP_Payout = FlZero

\* accumulation records, then withdrawal years 1, 2 and 3 with a rising
\* target, the target of year 3 not being the product T1 * (1 + rate)^2
C12_Witness ==
    /\ Returned
    /\ AccumulationMonths > 0
    /\ NumRecords > AccumulationMonths + 24
    /\ Rec(0).SWP_Year = 0
    /\ Rec(AccumulationMonths).SWP_Year = 1
    /\ Rec(AccumulationMonths).Target_SWP_Payout = T1
    /\ FlGreater(T1, FlZero)
    /\ Rec(AccumulationMonths + 12).SWP_Year = 2
    /\ FlGreater(Rec(AccumulationMonths + 12).Target_SWP_Payout, T1)
    /\ Rec(AccumulationMonths + 24).SWP_Year = 3
    /\ Rec(AccumulationMonths + 24).Target_SWP_Payout = Escalated(T1, 2)
    /\ Rec(AccumulationMonths + 24).Target_SWP_Payout # FlMul(T1, FlPow(PayoutGrowthFactor, 2))

\* C13 (as claimed): in a withdrawal month that starts with a positive
\* balance B, with grown = B * (1 + growth/12): if target >= grown the payout
\* is grown and the new balance 0; otherwise the payout is the target and the
\* new balance grown - target > 0.  In a month that starts with balance <= 0
\* the payout is 0 and the balance stays 0.
C13_PayoutRuleGrownByFactor ==
    Returned =>
        \A m \in WithdrawalIndices :
            LET B == StartBalance(m)
                grown == GrownByFactor(B, corpus_annual_growth_rate)
                target == Rec(m).Target_SWP_Payout
                payout == Rec(m).Hybrid_SWPPayout
                balance == Rec(m).Hybrid_SWPCorpus_EOM
            IN  IF FlGreater(B, FlZero)
                THEN IF FlGreaterEq(target, grown)
                     THEN payout = grown /\ balance = FlZero
                     ELSE /\ payout = target
                          /\ balance = FlSub(grown, target)
                          /\ FlGreater(balance, FlZero)
                ELSE payout = FlZero /\ balance = FlZero

\* C13 (amended): the same rule with grown = B + B * (growth/12), the float
\* sum of the balance and its interest.
C13_PayoutRule ==
    Returned =>
        \A m \in WithdrawalIndices :
            LET B == StartBalance(m)
                grown == GrownByInterest(B, corpus_annual_growth_rate)
                target == Rec(m).Target_SWP_Payout
                payout == Rec(m).Hybrid_SWPPayout
                balance == Rec(m).Hybrid_SWPCorpus_EOM
            IN  IF FlGreater(B, FlZero)
                THEN IF FlGreaterEq(target, grown)
                     THEN payout = grown /\ balance = FlZero
                     ELSE /\ payout = target
                          /\ balance = FlSub(grown, target)
                          /\ FlGreater(balance, FlZero)
                ELSE payout = FlZero /\ balance = FlZero

\* one run with growth that has a month paying the target out of a larger
\* grown balance, the sum and the product form of the grown balance being
\* different doubles, a month paying out the whole grown balance, and a
\* month starting with balance 0
C13_Witness ==
    /\ Returned
    /\ FlGreater(corpus_annual_growth_rate, FlZero)
    /\ \E m \in WithdrawalIndices :
          /\ FlGreater(StartBalance(m), FlZero)
          /\ Rec(m).Hybrid_SWPPayout = Rec(m).Target_SWP_Payout
          /\ FlGreater(Rec(m).Hybrid_SWPCorpus_EOM, FlZero)
          /\ GrownByInterest(StartBalance(m), corpus_annual_growth_rate)
                # GrownByFactor(StartBalance(m), corpus_annual_growth_rate)
    /\ \E m \in WithdrawalIndices :
          /\ FlGreater(StartBalance(m), FlZero)
          /\ Rec(m).Hybrid_SWPPayout = GrownByInterest(StartBalance(m), corpus_annual_growth_rate)
          /\ Rec(m).Hybrid_SWPCorpus_EOM = FlZero
    /\ \E m \in WithdrawalIndices :
          /\ StartBalance(m) = FlZero
          /\ FlGreater(Rec(m).Target_SWP_Payout, FlZero)
          /\ Rec(m).Hybrid_SWPPayout = FlZero

\* C14 (as claimed): in every accumulation month the balance is the previous
\* balance times (1 + rate/12) plus monthly_benefit, starting from 0:
\* interest first, contribution second, so the first record's balance is
\* monthly_benefit exactly.
C14_BalanceIsProductPlusBenefit ==
    Returned =>
        LET benefit == Amount(monthly_survival_benefit)
        IN  \A m \in RecordIndices :
                m < AccumulationMonths =>
                    LET previous == IF m = 0 THEN FlZero ELSE Rec(m - 1).Hybrid_SIPCorpus_EOM
                    IN  /\ Rec(m).Hybrid_SIPCorpus_EOM =
                              FlAdd(GrownByFactor(previous, sip_annual_return_rate), benefit)
                        /\ (m = 0 => Rec(m).Hybrid_SIPCorpus_EOM = benefit)

\* C14 (amended): in every accumulation month the balance is the previous
\* balance plus its interest previous * (rate/12), plus monthly_benefit, the
\* two float additions in this order, starting from 0: interest first,
\* contribution second, so the first record's balance is monthly_benefit
\* exactly.
C14_InterestThenContribution ==
    Returned =>
        LET benefit == Amount(monthly_survival_benefit)
        IN  \A m \in RecordIndices :
                m < AccumulationMonths =>
                    LET previous == IF m = 0 THEN FlZero ELSE Rec(m - 1).Hybrid_SIPCorpus_EOM
                    IN  /\ Rec(m).Hybrid_SIPCorpus_EOM =
                              FlAdd(GrownByInterest(previous, sip_annual_return_rate), benefit)
                        /\ (m = 0 => Rec(m).Hybrid_SIPCorpus_EOM = benefit)

\* a whole accumulation year at a positive rate, with a month whose balance
\* is not the double that the product form gives
C14_Witness ==
    /\ Returned
    /\ FlGreater(sip_annual_return_rate, FlZero)
    /\ AccumulationMonths >= 12
    /\ NumRecords >= 12
    /\ Rec(0).Hybrid_SIPCorpus_EOM = Amount(monthly_survival_benefit)
    /\ FlGreater(Rec(11).Hybrid_SIPCorpus_EOM, Amount(12 * monthly_survival_benefit))
    /\ \E m \in 1..11 :
          Rec(m).Hybrid_SIPCorpus_EOM #
              FlAdd(GrownByFactor(Rec(m - 1).Hybrid_SIPCorpus_EOM, sip_annual_return_rate),
                    Amount(monthly_survival_benefit))

\* C15: the accumulation balance is non-decreasing from record to record
\* while m < accumulation_months; every record with m >= accumulation_months
\* has the balance of record accumulation_months - 1 (0 when there is none)
\* and Hybrid_SIPInvestment 0.
C15_AccumulationBalanceFrozen ==
    \A m \in RecordIndices :
        IF m < AccumulationMonths
        THEN (m + 1 \in RecordIndices /\ m + 1 < AccumulationMonths) =>
                 FlGreaterEq(Rec(m + 1).Hybrid_SIPCorpus_EOM, Rec(m).Hybrid_SIPCorpus_EOM)
        ELSE /\ Rec(m).Hybrid_SIPCorpus_EOM =
                   IF AccumulationMonths = 0 THEN FlZero
                   ELSE Rec(AccumulationMonths - 1).Hybrid_SIPCorpus_EOM
             /\ Rec(m).Hybrid_SIPInvestment = FlZero

\* withdrawals took place while the accumulation balance stayed as it was
C15_Witness ==
    /\ AccumulationMonths > 0
    /\ NumRecords > AccumulationMonths + 1
    /\ FlGreater(Rec(AccumulationMonths - 1).Hybrid_SIPCorpus_EOM, Rec(0).Hybrid_SIPCorpus_EOM)
    /\ Rec(NumRecords - 1).Hybrid_SIPCorpus_EOM = Rec(AccumulationMonths - 1).Hybrid_SIPCorpus_EOM
    /\ FlGreater(Rec(NumRecords - 2).Hybrid_SWPPayout, FlZero)
    /\ FlLess(Rec(NumRecords - 1).Hybrid_SWPCorpus_EOM, Rec(NumRecords - 1).Hybrid_SIPCorpus_EOM)
    /\ hybrid_sip_corpus = Rec(AccumulationMonths - 1).Hybrid_SIPCorpus_EOM

\* C16: in every record Hybrid_TotalMonthlyIncome = monthly_benefit +
\* Hybrid_SWPPayout, and Hybrid_CumulativeTotalIncome of record i is the sum
\* of Hybrid_TotalMonthlyIncome over the records 0..i, added up in record
\* order.
C16_HybridIncomeSums ==
    Returned =>
        \E sums \in {RunningSums("Hybrid_TotalMonthlyIncome", 0, NumRecords - 1)} :
            \A i \in RecordIndices :
                /\ Rec(i).Hybrid_TotalMonthlyIncome =
                      FlAdd(Amount(monthly_survival_benefit), Rec(i).Hybrid_SWPPayout)
                /\ Rec(i).Hybrid_CumulativeTotalIncome = sums[i + 1]

C16_Witness ==
    /\ Returned
    /\ NumRecords >= 24
    /\ \E i \in RecordIndices :
          /\ FlGreater(Rec(i).Hybrid_SWPPayout, FlZero)
          /\ FlGreater(Rec(i).Hybrid_TotalMonthlyIncome, Rec(i).Hybrid_SWPPayout)
          /\ FlGreater(Rec(i).Hybrid_TotalMonthlyIncome, Rec(i).Primary_MonthlyIncome)
    /\ FlGreater(Rec(NumRecords - 1).Hybrid_CumulativeTotalIncome,
                 Rec(NumRecords - 1).Primary_CumulativeIncome)
    /\ Rec(NumRecords - 1).Hybrid_CumulativeTotalIncome =
          FlAdd(Rec(NumRecords - 2).Hybrid_CumulativeTotalIncome,
                Rec(NumRecords - 1).Hybrid_TotalMonthlyIncome)

\* C17: with non-negative rates and monthly_benefit > 0 the hybrid scenario
\* never pays less than the baseline, per month and cumulatively, and the
\* cumulative fields are equal in every record with MonthIndex <
\* accumulation_months.
C17_HybridNeverBelowBaseline ==
    \A i \in RecordIndices :
        /\ FlGreaterEq(Rec(i).Hybrid_TotalMonthlyIncome, Rec(i).Primary_MonthlyIncome)
        /\ FlGreaterEq(Rec(i).Hybrid_CumulativeTotalIncome, Rec(i).Primary_CumulativeIncome)
        /\ (i < AccumulationMonths =>
               Rec(i).Hybrid_CumulativeTotalIncome = Rec(i).Primary_CumulativeIncome)

C17_Witness ==
    /\ AccumulationMonths > 0
    /\ NumRecords > AccumulationMonths
    /\ Rec(AccumulationMonths - 1).Hybrid_CumulativeTotalIncome
          = Rec(AccumulationMonths - 1).Primary_CumulativeIncome
    /\ FlGreater(Rec(AccumulationMonths).Hybrid_TotalMonthlyIncome,
                 Rec(AccumulationMonths).Primary_MonthlyIncome)
    /\ FlGreater(Rec(NumRecords - 1).Hybrid_CumulativeTotalIncome,
                 Rec(NumRecords - 1).Primary_CumulativeIncome)

\* C18: in every withdrawal record the payout is at most the target; it is
\* the full target in every month before depletion; at most one record has
\* 0 < payout < target, and every record after that one has payout 0.
C18_PayoutAtMostTarget ==
    /\ \A i \in WithdrawalIndices :
          /\ FlLessEq(Rec(i).Hybrid_SWPPayout, Rec(i).Target_SWP_Payout)
          /\ (\A k \in AccumulationMonths..i : FlGreater(Rec(k).Hybrid_SWPCorpus_EOM, FlZero)) =>
                Rec(i).Hybrid_SWPPayout = Rec(i).Target_SWP_Payout
    /\ Cardinality(PartialPayoutMonths) <= 1
    /\ \A i \in PartialPayoutMonths : \A j \in RecordIndices :
          j > i => Rec(j).Hybrid_SWPPayout = FlZero

\* full-target months, then the one partial payout, then months without
C18_Witness ==
    \E i \in PartialPayoutMonths :
        /\ i > AccumulationMonths
        /\ Rec(i - 1).Hybrid_SWPPayout = Rec(i - 1).Target_SWP_Payout
        /\ FlGreater(Rec(i - 1).Hybrid_SWPCorpus_EOM, FlZero)
        /\ i + 1 \in RecordIndices
        /\ Rec(i + 1).Hybrid_SWPPayout = FlZero
        /\ FlGreater(Rec(i + 1).Target_SWP_Payout, FlZero)

\* C19 (as claimed): with decumulation_annual_growth_rate = 0, for every
\* record with m >= accumulation_months the payouts of the records
\* accumulation_months..m plus the decumulation balance of record m add up
\* to the balance transferred at the transition.
C19_PayoutsPlusBalanceEqualTransferred ==
    (Returned /\ FlIsZero(corpus_annual_growth_rate)) =>
        \E paid \in {RunningSums("Hybrid_SWPPayout", AccumulationMonths, NumRecords - 1)} :
            \A m \in WithdrawalIndices :
                FlAdd(paid[m - AccumulationMonths + 1], Rec(m).Hybrid_SWPCorpus_EOM)
                    = Transferred

\* C19 (amended): with decumulation_annual_growth_rate = 0, every withdrawal
\* month pays at most its starting balance and leaves the float difference
\* starting balance - payout (0 in the depletion month and after it), and
\* the payouts of the records accumulation_months..m plus the balance of
\* record m add up to the transferred balance up to float rounding: within
\* a relative error of 2^-40.
C19_TransferredBalanceConserved ==
    (Returned /\ FlIsZero(corpus_annual_growth_rate)) =>
        \E paid \in {RunningSums("Hybrid_SWPPayout", AccumulationMonths, NumRecords - 1)} :
            \A m \in WithdrawalIndices :
                /\ FlLessEq(Rec(m).Hybrid_SWPPayout, StartBalance(m))
                /\ Rec(m).Hybrid_SWPCorpus_EOM =
                      FlSub(StartBalance(m), Rec(m).Hybrid_SWPPayout)
                /\ FlLessEq(FlAbs(FlSub(FlAdd(paid[m - AccumulationMonths + 1],
                                              Rec(m).Hybrid_SWPCorpus_EOM),
                                        Transferred)),
                            FlScale(Transferred, -40))

\* a run without growth that pays the truncated payout of the depletion
\* month and ends with balance 0, in which the float sum of the payouts is
\* not the transferred balance
C19_Witness ==
    /\ Returned
    /\ FlIsZero(corpus_annual_growth_rate)
    /\ FlGreater(Transferred, FlZero)
    /\ PartialPayoutMonths # {}
    /\ Rec(NumRecords - 1).Hybrid_SWPCorpus_EOM = FlZero
    /\ \E paid \in {RunningSums("Hybrid_SWPPayout", AccumulationMonths, NumRecords - 1)} :
          paid[Len(paid)] # Transferred

====
